---- MODULE Spec2Model ----
(***************************************************************************)
(* A model of prover.cpp: the term language, the canonical printer, the    *)
(* matcher, the substituter, the rewriter, the breadth-first search of     *)
(* find_shortest_path and the driver loop of main.                         *)
(***************************************************************************)
EXTENDS Integers, Sequences, FiniteSets, TLC

VARIABLES
    script,                 \* the commands of the script file, in source order
    pc,                     \* position of the process
    ci,                     \* index of the command the driver loop is at
    axioms,                 \* main: vector<Axiom> axioms
    max_search_depth,       \* main: int max_search_depth
    max_tree_size,          \* main: int max_tree_size
    use_proofs_as_axioms,   \* main: bool use_proofs_as_axioms
    out,                    \* outcome line printed for the last prove command
    fsp,                    \* arguments of the running find_shortest_path call
    Q,                      \* find_shortest_path: queue<Node> Q
    vis,                    \* find_shortest_path: set<string> vis
    parent,                 \* find_shortest_path: map<string, pair<string, Node>>
    depth,                  \* find_shortest_path: map<string, int> depth
    var_gen,                \* find_shortest_path: VariableNameGenerator (its idx)
    states,                 \* find_shortest_path: int &states
    ok,                     \* find_shortest_path: bool &ok
    path,                   \* find_shortest_path: the returned vector
    root,                   \* main: Node root = parse(code)
    hist,                   \* history: the loop iterations of the running search
    proofs,                 \* history: the prove commands completed so far
    subject,                \* matcher harness: the subject term
    pattern,                \* matcher harness: the pattern term
    matched                 \* matcher harness: result of get_rule_replacements

vars == <<script, pc, ci, axioms, max_search_depth, max_tree_size,
          use_proofs_as_axioms, out, fsp, Q, vis, parent, depth, var_gen,
          states, ok, path, root, hist, proofs, subject, pattern, matched>>

----------------------------------------------------------------------------
(* Terms: struct Node {token, type, children}.                             *)

Prim(t) == [type |-> "PRIM", token |-> t, children |-> <<>>]
Var(t) == [type |-> "VAR", token |-> t, children |-> <<>>]
Unres(t) == [type |-> "UNRES", token |-> t, children |-> <<>>]
Uop(t, c) == [type |-> "OP", token |-> t, children |-> <<c>>]
Bop(t, l, r) == [type |-> "OP", token |-> t, children |-> <<l, r>>]

(* The node handed on after rerror(...); exit(1).                          *)
RuntimeError == [type |-> "RERROR", token |-> "Runtime Error", children |-> <<>>]

RECURSIVE has_rerror(_)
has_rerror(node) ==
    \/ node.type = "RERROR"
    \/ \E i \in 1..Len(node.children) : has_rerror(node.children[i])

(* Canonical text.                                                         *)
RECURSIVE to_string(_)
to_string(node) ==
    IF node.type = "OP" THEN
        IF node.token = "~" THEN
            "(~ " \o to_string(node.children[1]) \o ")"
        ELSE
            "(" \o node.token \o " " \o to_string(node.children[1]) \o " "
                \o to_string(node.children[2]) \o ")"
    ELSE IF node.type \in {"PRIM", "VAR", "UNRES"} THEN node.token
    ELSE "Runtime Error"

(* Order of std::string (ASCII) on the characters scripts and the          *)
(* generator use, for the iteration order of std::set<string>.             *)
Ascii == "0123456789?ABCDEFGHIJKLMNOPQRSTUVWXYZ_abcdefghijklmnopqrstuvwxyz"

CharRank(c) == CHOOSE i \in 1..Len(Ascii) : SubSeq(Ascii, i, i) = c

RECURSIVE str_less(_, _)
str_less(s, t) ==
    IF Len(t) = 0 THEN FALSE
    ELSE IF Len(s) = 0 THEN TRUE
    ELSE LET a == CharRank(SubSeq(s, 1, 1))
             b == CharRank(SubSeq(t, 1, 1))
         IN IF a # b THEN a < b
            ELSE str_less(SubSeq(s, 2, Len(s)), SubSeq(t, 2, Len(t)))

RECURSIVE set_in_order(_)
set_in_order(S) ==
    IF S = {} THEN <<>>
    ELSE LET m == CHOOSE x \in S : \A y \in S \ {x} : str_less(x, y)
         IN <<m>> \o set_in_order(S \ {m})

RECURSIVE get_variables(_)
get_variables(node) ==
    IF node.type = "OP" THEN
        UNION {get_variables(node.children[i]) : i \in 1..Len(node.children)}
    ELSE IF node.type = "PRIM" THEN {}
    ELSE IF node.type \in {"VAR", "UNRES"} THEN {node.token}
    ELSE {"Runtime Error"}

----------------------------------------------------------------------------
(* Matcher.                                                                *)

(* The pairs of node kinds on which trees_equal leaves its if-chain        *)
(* without a return statement: the value the caller reads is then          *)
(* whatever the build produces.  ub maps each such pair to that value.     *)
NoReturn == {<<"VAR", "UNRES">>, <<"UNRES", "VAR">>, <<"UNRES", "UNRES">>,
             <<"UNRES", "OP">>, <<"UNRES", "PRIM">>}

RECURSIVE kinds(_)
kinds(node) ==
    {node.type} \cup UNION {kinds(node.children[i]) : i \in 1..Len(node.children)}

(* The values the build can produce for the calls made while matching      *)
(* inside the subject u: both arguments of trees_equal are subterms of u.  *)
Outcomes(u) == [{p \in NoReturn : p[1] \in kinds(u) /\ p[2] \in kinds(u)} -> BOOLEAN]

(* trees_equal as get_rule_replacements calls it: resolutions is empty.    *)
trees_equal(a, b, ub) ==
    IF a.type = "OP" THEN
        IF b.type = "OP" THEN a.token = b.token ELSE FALSE
    ELSE IF a.type = "PRIM" THEN
        IF b.type = "PRIM" THEN a.token = b.token ELSE FALSE
    ELSE IF a.type = "VAR" THEN
        IF b.type = "VAR" THEN a.token = b.token
        ELSE IF b.type = "UNRES" THEN ub[<<"VAR", "UNRES">>]
        ELSE FALSE
    ELSE IF a.type = "UNRES" THEN ub[<<"UNRES", b.type>>]
    ELSE FALSE

EmptyScope == [v \in {} |-> RuntimeError]

RECURSIVE get_rule_replacements(_, _, _, _)
get_rule_replacements(node, rule, scope, ub) ==
    IF rule.type = "OP" /\ (node.type # "OP" \/ rule.token # node.token) THEN
        [ok |-> FALSE, scope |-> scope]
    ELSE IF rule.type = "PRIM" /\ (node.type # "PRIM" \/ rule.token # node.token) THEN
        [ok |-> FALSE, scope |-> scope]
    ELSE IF /\ rule.type \in {"VAR", "UNRES"}
            /\ rule.token \in DOMAIN scope
            /\ ~trees_equal(scope[rule.token], node, ub) THEN
        [ok |-> FALSE, scope |-> scope]
    ELSE
        LET bound == IF rule.type \in {"VAR", "UNRES"} /\ rule.token \notin DOMAIN scope
                     THEN (rule.token :> node) @@ scope
                     ELSE scope
        IN IF rule.type = "OP" /\ node.type = "OP" THEN
               IF Len(node.children) # Len(rule.children) THEN
                   [ok |-> FALSE, scope |-> bound]
               ELSE
                   LET first == get_rule_replacements(node.children[1], rule.children[1], bound, ub)
                   IN IF ~first.ok THEN first
                      ELSE IF Len(node.children) = 2 THEN
                          get_rule_replacements(node.children[2], rule.children[2], first.scope, ub)
                      ELSE first
           ELSE [ok |-> TRUE, scope |-> bound]

----------------------------------------------------------------------------
(* Substituter.                                                            *)

(* Mutant of replace_variables: the PRIM branch is missing.                *)
RECURSIVE replace_variables_no_prim(_, _)
replace_variables_no_prim(node, scope) ==
    IF node.type = "VAR" THEN scope[node.token]
    ELSE IF node.type = "OP" THEN
        [node EXCEPT !.children =
            [i \in 1..Len(node.children) |-> replace_variables_no_prim(node.children[i], scope)]]
    ELSE RuntimeError

RECURSIVE replace_variables(_, _)
replace_variables(node, scope) ==
    IF node.type = "VAR" THEN scope[node.token]
    ELSE IF node.type = "PRIM" THEN node
    ELSE IF node.type = "OP" THEN
        [node EXCEPT !.children =
            [i \in 1..Len(node.children) |-> replace_variables(node.children[i], scope)]]
    ELSE RuntimeError

(* VariableNameGenerator::next for the counter value idx.                  *)
next_name(idx) == "?" \o ToString(idx)

(* Mutant of fill_unused: the counter is left where it was.                *)
RECURSIVE fill_unused_reuse(_, _, _)
fill_unused_reuse(names, scope, idx) ==
    IF names = <<>> THEN [scope |-> scope, idx |-> idx]
    ELSE IF Head(names) \in DOMAIN scope THEN fill_unused_reuse(Tail(names), scope, idx)
    ELSE fill_unused_reuse(Tail(names), (Head(names) :> Unres(next_name(idx))) @@ scope, idx)

(* Mutant of fill_unused: an unbound variable stays in the successor       *)
(* under its own name.                                                     *)
RECURSIVE fill_unused_leak(_, _, _)
fill_unused_leak(names, scope, idx) ==
    IF names = <<>> THEN [scope |-> scope, idx |-> idx]
    ELSE IF Head(names) \in DOMAIN scope THEN fill_unused_leak(Tail(names), scope, idx)
    ELSE fill_unused_leak(Tail(names), (Head(names) :> Var(Head(names))) @@ scope, idx + 1)

(* The loop of apply_transformation over get_variables(rule_to), in the    *)
(* order of std::set<string>; returns the scope and the counter.           *)
RECURSIVE fill_unused(_, _, _)
fill_unused(names, scope, idx) ==
    IF names = <<>> THEN [scope |-> scope, idx |-> idx]
    ELSE IF Head(names) \in DOMAIN scope THEN fill_unused(Tail(names), scope, idx)
    ELSE fill_unused(Tail(names), (Head(names) :> Unres(next_name(idx))) @@ scope, idx + 1)

apply_transformation(node, rule_from, rule_to, idx, ub) ==
    LET m == get_rule_replacements(node, rule_from, EmptyScope, ub)
    IN IF ~m.ok THEN [ok |-> FALSE, node |-> RuntimeError, idx |-> idx]
       ELSE LET f == fill_unused(set_in_order(get_variables(rule_to)), m.scope, idx)
            IN [ok |-> TRUE, node |-> replace_variables(rule_to, f.scope), idx |-> f.idx]

----------------------------------------------------------------------------
(* Rewriter.                                                               *)

(* node with child i replaced by each successor of that child.             *)
lift(node, i, child_possible) ==
    [j \in 1..Len(child_possible) |->
        <<child_possible[j][1], [node EXCEPT !.children[i] = child_possible[j][2]]>>]

RECURSIVE possible_next_trees_for_rule(_, _, _, _, _, _)
RECURSIVE children_possible(_, _, _, _, _, _, _, _)

(* The loop over node.children of possible_next_trees_for_rule, from       *)
(* child i on, appending to possible.                                      *)
children_possible(node, i, possible, rule_name, rule_from, rule_to, idx, ub) ==
    IF i > Len(node.children) THEN [possible |-> possible, idx |-> idx]
    ELSE LET c == possible_next_trees_for_rule(node.children[i], rule_name,
                                               rule_from, rule_to, idx, ub)
         IN children_possible(node, i + 1, possible \o lift(node, i, c.possible),
                              rule_name, rule_from, rule_to, c.idx, ub)

possible_next_trees_for_rule(node, rule_name, rule_from, rule_to, idx, ub) ==
    LET t == apply_transformation(node, rule_from, rule_to, idx, ub)
        at_root == IF t.ok THEN <<<<rule_name, t.node>>>> ELSE <<>>
    IN children_possible(node, 1, at_root, rule_name, rule_from, rule_to, t.idx, ub)

(* Mutant of possible_next_trees_from: b -> a is tried before a -> b.      *)
RECURSIVE possible_next_trees_from_ba_first(_, _, _, _, _, _)
possible_next_trees_from_ba_first(axs, k, possible, node, idx, ub) ==
    IF k > Len(axs) THEN [possible |-> possible, idx |-> idx]
    ELSE LET ba == possible_next_trees_for_rule(node, axs[k].name, axs[k].rule_b,
                                                axs[k].rule_a, idx, ub)
             ab == possible_next_trees_for_rule(node, axs[k].name, axs[k].rule_a,
                                                axs[k].rule_b, ba.idx, ub)
         IN possible_next_trees_from_ba_first(axs, k + 1,
                                              possible \o ba.possible \o ab.possible,
                                              node, ab.idx, ub)

RECURSIVE possible_next_trees_from(_, _, _, _, _, _)
possible_next_trees_from(axs, k, possible, node, idx, ub) ==
    IF k > Len(axs) THEN [possible |-> possible, idx |-> idx]
    ELSE LET ab == possible_next_trees_for_rule(node, axs[k].name, axs[k].rule_a,
                                                axs[k].rule_b, idx, ub)
             ba == possible_next_trees_for_rule(node, axs[k].name, axs[k].rule_b,
                                                axs[k].rule_a, ab.idx, ub)
         IN possible_next_trees_from(axs, k + 1, possible \o ab.possible \o ba.possible,
                                     node, ba.idx, ub)

possible_next_trees(axs, node, idx, ub) ==
    possible_next_trees_from(axs, 1, <<>>, node, idx, ub)

----------------------------------------------------------------------------
(* Search engine: find_shortest_path.                                      *)

MaxStates == 7      \* loop iterations of one search that the model follows

hstart == to_string(fsp.start)
htarget == to_string(fsp.target)

EmptyMap == [k \in {} |-> 0]

(* map<string, int>::operator[] on a key: a missing key reads as 0 ...     *)
depth_at(d, k) == IF k \in DOMAIN d THEN d[k] ELSE 0

(* ... and is inserted by the read.                                        *)
depth_touched(d, k) == IF k \in DOMAIN d THEN d ELSE (k :> 0) @@ d

(* Mutant of push: the queue used as a stack.                              *)
push_front(q, v) == <<v>> \o q

(* Q.push(v)                                                               *)
push(q, v) == Append(q, v)

(* Mutant of over_bounds: a node at max_depth is still expanded.           *)
over_bounds_late(hu, d, max_depth, max_size) ==
    Len(hu) > max_size \/ depth_at(d, hu) > max_depth

(* The test of the `continue` of the loop: the node is not expanded.       *)
over_bounds(hu, d, max_depth, max_size) ==
    Len(hu) > max_size \/ depth_at(d, hu) >= max_depth

(* Mutant of branch: the bounds are tested before the target.              *)
branch_bounds_first(hu, ht, d, max_depth, max_size) ==
    IF over_bounds(hu, d, max_depth, max_size) THEN "abandoned"
    ELSE IF hu = ht THEN "found"
    ELSE "expanded"

(* Which way the body of the while loop goes for the dequeued key hu: the  *)
(* target test comes first, then the bounds.                               *)
branch(hu, ht, d, max_depth, max_size) ==
    IF hu = ht THEN "found"
    ELSE IF over_bounds(hu, d, max_depth, max_size) THEN "abandoned"
    ELSE "expanded"

(* The walk of the parent links from the matched node u, before reverse.   *)
RECURSIVE walk_back(_, _, _, _, _)
walk_back(cur, hcur, par, hs, acc) ==
    IF hcur = hs THEN acc
    ELSE LET pr == par[hcur]
         IN walk_back(pr[2], to_string(pr[2]), par, hs, Append(acc, <<pr[1], cur>>))

reverse(s) == [i \in 1..Len(s) |-> s[Len(s) + 1 - i]]

(* Mutant of reconstruct_path: the reverse is left out.                    *)
reconstruct_unreversed(u, par, hs) == walk_back(u, to_string(u), par, hs, <<>>)

reconstruct_path(u, par, hs) == reverse(walk_back(u, to_string(u), par, hs, <<>>))

(* Mutant of visit_all: the test on vis is left out.                       *)
RECURSIVE visit_all_revisit(_, _, _, _)
visit_all_revisit(possible, i, u, s) ==
    IF i > Len(possible) THEN s
    ELSE LET v == possible[i][2]
             hv == to_string(v)
             hu == to_string(u)
         IN visit_all_revisit(possible, i + 1, u,
                [vis |-> s.vis \cup {hv},
                 Q |-> push(s.Q, v),
                 depth |-> (hv :> depth_at(s.depth, hu) + 1) @@ s.depth,
                 parent |-> (hv :> <<possible[i][1], u>>) @@ s.parent])

(* The for loop over possible_next_trees(...) from pair i on.              *)
RECURSIVE visit_all(_, _, _, _)
visit_all(possible, i, u, s) ==
    IF i > Len(possible) THEN s
    ELSE LET v == possible[i][2]
             hv == to_string(v)
             hu == to_string(u)
         IN IF hv \notin s.vis THEN
                visit_all(possible, i + 1, u,
                    [vis |-> s.vis \cup {hv},
                     Q |-> push(s.Q, v),
                     depth |-> (hv :> depth_at(s.depth, hu) + 1) @@ s.depth,
                     parent |-> (hv :> <<possible[i][1], u>>) @@ s.parent])
            ELSE visit_all(possible, i + 1, u, s)

(* Entry of find_shortest_path, up to the first test of the while loop.    *)
Call(axs, start, target, max_depth, max_size) ==
    /\ fsp' = [axioms |-> axs, start |-> start, target |-> target,
               max_depth |-> max_depth, max_tree_size |-> max_size]
    /\ Q' = <<start>>
    /\ vis' = {to_string(start)}
    /\ parent' = EmptyMap
    /\ depth' = EmptyMap
    /\ var_gen' = 0
    /\ states' = 0
    /\ ok' = FALSE
    /\ path' = <<>>
    /\ hist' = <<>>

DriverVars == <<script, root, ci, axioms, max_search_depth, max_tree_size,
                use_proofs_as_axioms, out, proofs>>
MatchVars == <<subject, pattern, matched>>

(* One iteration of the while loop that ends in `return path`.             *)
FoundStep ==
    /\ pc = "search"
    /\ Q # <<>>
    /\ LET u == Head(Q)
           hu == to_string(u)
       IN /\ branch(hu, htarget, depth, fsp.max_depth, fsp.max_tree_size) = "found"
          /\ states' = states + 1
          /\ Q' = Tail(Q)
          /\ ok' = TRUE
          /\ path' = reconstruct_path(u, parent, hstart)
          /\ hist' = Append(hist, [kind |-> "found", node |-> u, possible |-> <<>>])
          /\ pc' = "return"
    /\ UNCHANGED <<fsp, vis, parent, depth, var_gen, DriverVars, MatchVars>>

(* One iteration of the while loop that ends in `continue`.                *)
AbandonStep ==
    /\ pc = "search"
    /\ Q # <<>>
    /\ LET u == Head(Q)
           hu == to_string(u)
       IN /\ branch(hu, htarget, depth, fsp.max_depth, fsp.max_tree_size) = "abandoned"
          /\ states' = states + 1
          /\ Q' = Tail(Q)
          /\ depth' = IF Len(hu) > fsp.max_tree_size THEN depth
                      ELSE depth_touched(depth, hu)
          /\ hist' = Append(hist, [kind |-> "abandoned", node |-> u, possible |-> <<>>])
    /\ UNCHANGED <<pc, fsp, vis, parent, var_gen, ok, path, DriverVars, MatchVars>>

(* One iteration of the while loop that expands the node.                  *)
ExpandStep ==
    /\ pc = "search"
    /\ Q # <<>>
    /\ \E ub \in Outcomes(Head(Q)) :
        LET u == Head(Q)
            hu == to_string(u)
            p == possible_next_trees(fsp.axioms, u, var_gen, ub)
            d == depth_touched(depth, hu)
            s == visit_all(p.possible, 1, u,
                           [vis |-> vis, Q |-> Tail(Q), depth |-> d, parent |-> parent])
        IN /\ branch(hu, htarget, depth, fsp.max_depth, fsp.max_tree_size) = "expanded"
           /\ states' = states + 1
           /\ var_gen' = p.idx
           /\ hist' = Append(hist, [kind |-> "expanded", node |-> u, possible |-> p.possible])
           /\ IF \E i \in 1..Len(p.possible) : has_rerror(p.possible[i][2])
              THEN /\ pc' = "exit1"
                   /\ UNCHANGED <<Q, vis, depth, parent>>
              ELSE /\ pc' = pc
                   /\ Q' = s.Q
                   /\ vis' = s.vis
                   /\ depth' = s.depth
                   /\ parent' = s.parent
    /\ UNCHANGED <<fsp, ok, path, DriverVars, MatchVars>>

(* The iterations that the bounded specifications follow: at most          *)
(* MaxStates of them in one search.                                        *)
Found == states < MaxStates /\ FoundStep

Abandon == states < MaxStates /\ AbandonStep

Expand == states < MaxStates /\ ExpandStep

(* The while loop ends with the queue empty.                               *)
Fail ==
    /\ pc = "search"
    /\ Q = <<>>
    /\ ok' = FALSE
    /\ path' = <<>>
    /\ pc' = "return"
    /\ UNCHANGED <<fsp, Q, vis, parent, depth, var_gen, states, hist, DriverVars, MatchVars>>

----------------------------------------------------------------------------
(* Parser: the param branch of parse_command decides on the value token.   *)

is_digit(c) == CharRank(c) <= 10

is_pos_int_token(tok) == \A i \in 1..Len(tok) : is_digit(SubSeq(tok, i, i))

is_alpha(c) == CharRank(c) > 11 /\ c # "_"

(* A string of the characters of Ascii is a user identifier when it starts *)
(* with a letter or '_' and goes on with letters, digits and '_'.          *)
is_id_token(tok) ==
    /\ Len(tok) > 0
    /\ (SubSeq(tok, 1, 1) = "_" \/ is_alpha(SubSeq(tok, 1, 1)))
    /\ \A i \in 1..Len(tok) :
          LET c == SubSeq(tok, i, i)
          IN is_digit(c) \/ is_alpha(c) \/ c = "_"

is_pos_int_param_token(tok) == tok = "max_tree_size" \/ tok = "max_search_depth"

is_bool_param_token(tok) == tok = "use_proofs_as_axioms"

is_bool_token(tok) == tok = "true" \/ tok = "false"

(* std::stoi on a token of digits.                                         *)
RECURSIVE stoi(_)
stoi(tok) ==
    IF Len(tok) = 0 THEN 0
    ELSE 10 * stoi(SubSeq(tok, 1, Len(tok) - 1))
         + (CharRank(SubSeq(tok, Len(tok), Len(tok))) - 1)

(* What parse_command answers after perror(...); exit(1).                  *)
ParseError == [type |-> "PERROR", token |-> "Error", children |-> <<>>]

is_bop_token(tok) == tok = "*" \/ tok = "+"
is_uop_token(tok) == tok = "~"
is_prim_token(tok) == tok = "0" \/ tok = "1"

(* A formula of the script is given as the tree of its tokens; the kind    *)
(* of each node is the parser's decision on the token.                     *)
RECURSIVE parse_formula(_)
parse_formula(f) ==
    IF Len(f.children) > 0 THEN
        IF is_uop_token(f.token) /\ Len(f.children) = 1 THEN
            Uop(f.token, parse_formula(f.children[1]))
        ELSE IF is_bop_token(f.token) /\ Len(f.children) = 2 THEN
            Bop(f.token, parse_formula(f.children[1]), parse_formula(f.children[2]))
        ELSE ParseError
    ELSE IF is_prim_token(f.token) THEN Prim(f.token)
    ELSE IF is_id_token(f.token) THEN Var(f.token)
    ELSE ParseError

RECURSIVE has_perror(_)
has_perror(node) ==
    \/ node = ParseError
    \/ \E i \in 1..Len(node.children) : has_perror(node.children[i])

(* A command of the script as the tokenizer delivers it: its keyword, the  *)
(* word after it, its formulas and, for param, the value token.            *)
parse_command(c) ==
    IF c.kw = "axiom" THEN
        LET left == parse_formula(c.forms[1])
            right == parse_formula(c.forms[2])
        IN IF ~is_id_token(c.word) \/ has_perror(left) \/ has_perror(right)
           THEN ParseError
           ELSE [type |-> "AXIOM", token |-> c.word, children |-> <<left, right>>]
    ELSE IF c.kw = "prove" THEN
        LET left == parse_formula(c.forms[1])
            right == parse_formula(c.forms[2])
        IN IF has_perror(left) \/ has_perror(right)
           THEN ParseError
           ELSE [type |-> "PROVE", token |-> "prove", children |-> <<left, right>>]
    ELSE IF c.kw = "param" THEN
        IF is_pos_int_param_token(c.word) THEN
            IF is_pos_int_token(c.value)
            THEN [type |-> "PARAM", token |-> c.word, children |-> <<Var(c.value)>>]
            ELSE ParseError
        ELSE IF is_bool_param_token(c.word) THEN
            IF is_bool_token(c.value)
            THEN [type |-> "PARAM", token |-> c.word, children |-> <<Var(c.value)>>]
            ELSE ParseError
        ELSE ParseError
    ELSE ParseError

EmptyRoot == [type |-> "ROOT", token |-> "root", children |-> <<>>]

parse(text) ==
    [type |-> "ROOT", token |-> "root",
     children |-> [i \in 1..Len(text) |-> parse_command(text[i])]]

----------------------------------------------------------------------------
(* Driver: main.                                                           *)

DefaultDepth == 8
DefaultSize == 20

SearchVars == <<fsp, Q, vis, parent, depth, var_gen, states, ok, path, hist>>

(* Mutant of proof_axiom: the name is built from the target first.         *)
proof_axiom_swapped(start, target) ==
    [name |-> "proof of " \o to_string(target) \o " = " \o to_string(start),
     rule_a |-> start,
     rule_b |-> target]

(* The axiom main appends after a proof when use_proofs_as_axioms is set.  *)
proof_axiom(start, target) ==
    [name |-> "proof of " \o to_string(start) \o " = " \o to_string(target),
     rule_a |-> start,
     rule_b |-> target]

(* Mutant of axioms_after_prove: the proof is kept whether found or not.   *)
axioms_after_prove_always(axs, flag, found, start, target) ==
    IF flag THEN Append(axs, [name |-> "proof of " \o to_string(start) \o " = "
                                          \o to_string(target),
                              rule_a |-> start, rule_b |-> target])
    ELSE axs

(* The axiom list after a prove command whose search returned found.       *)
axioms_after_prove(axs, flag, found, start, target) ==
    IF found /\ flag THEN Append(axs, proof_axiom(start, target)) ELSE axs

(* The outcome printed for a prove command.                                *)
outcome(found, p) ==
    IF found THEN (IF Len(p) = 0 THEN "Statements are the same." ELSE "Done")
    ELSE "No path found"

(* Node root = parse(code): the first parse error ends the process.        *)
Parse ==
    /\ pc = "parse"
    /\ LET r == parse(script)
       IN IF \E i \in 1..Len(script) : r.children[i] = ParseError
          THEN pc' = "exit1" /\ root' = root
          ELSE pc' = "main" /\ root' = r
    /\ UNCHANGED <<script, ci, axioms, max_search_depth, max_tree_size,
                   use_proofs_as_axioms, out, proofs, SearchVars, MatchVars>>

AtCommand(type) ==
    /\ pc = "main"
    /\ ci <= Len(root.children)
    /\ root.children[ci].type = type

CmdAxiom ==
    /\ AtCommand("AXIOM")
    /\ LET cmd == root.children[ci]
       IN axioms' = Append(axioms, [name |-> cmd.token,
                                    rule_a |-> cmd.children[1],
                                    rule_b |-> cmd.children[2]])
    /\ ci' = ci + 1
    /\ UNCHANGED <<script, root, pc, max_search_depth, max_tree_size,
                   use_proofs_as_axioms, out, proofs, SearchVars, MatchVars>>

CmdParam ==
    /\ AtCommand("PARAM")
    /\ LET cmd == root.children[ci]
           value == cmd.children[1].token
       IN /\ max_search_depth' =
                IF cmd.token = "max_search_depth" THEN stoi(value) ELSE max_search_depth
          /\ max_tree_size' =
                IF cmd.token = "max_tree_size" THEN stoi(value) ELSE max_tree_size
          /\ use_proofs_as_axioms' =
                IF cmd.token = "use_proofs_as_axioms" THEN value = "true"
                ELSE use_proofs_as_axioms
    /\ ci' = ci + 1
    /\ UNCHANGED <<script, root, pc, axioms, out, proofs, SearchVars, MatchVars>>

(* prove: up to the call of find_shortest_path.                            *)
CmdProve ==
    /\ AtCommand("PROVE")
    /\ LET cmd == root.children[ci]
       IN Call(axioms, cmd.children[1], cmd.children[2], max_search_depth, max_tree_size)
    /\ pc' = "search"
    /\ UNCHANGED <<DriverVars, MatchVars>>

(* prove: from the return of find_shortest_path to the end of the branch.  *)
Report ==
    /\ pc = "return"
    /\ out' = outcome(ok, path)
    /\ axioms' = axioms_after_prove(axioms, use_proofs_as_axioms, ok, fsp.start, fsp.target)
    /\ proofs' = Append(proofs, [call |-> fsp, flag |-> use_proofs_as_axioms,
                                 ok |-> ok, path |-> path, states |-> states])
    /\ ci' = ci + 1
    /\ pc' = "main"
    /\ UNCHANGED <<script, root, max_search_depth, max_tree_size,
                   use_proofs_as_axioms, SearchVars, MatchVars>>

(* The for loop over root.children ends: return 0.                         *)
Finish ==
    /\ pc = "main"
    /\ ci > Len(root.children)
    /\ pc' = "exit0"
    /\ UNCHANGED <<DriverVars, SearchVars, MatchVars>>

----------------------------------------------------------------------------
(* Inputs.                                                                 *)

MaxCmds == 4        \* commands of a script
MaxAxioms == 2      \* axioms handed to a search that is checked on its own
MaxDepth == 2       \* max_depth handed to a search that is checked on its own
MaxTermDepth == 2   \* nesting of the subject terms handed to the matcher

a == Var("a")
b == Var("b")
x == Var("x")
y == Var("y")
z == Var("z")
zero == Prim("0")
one == Prim("1")

Axiom(name, l, r) == [name |-> name, rule_a |-> l, rule_b |-> r]

com_add == Axiom("com_add", Bop("+", a, b), Bop("+", b, a))
ide_add == Axiom("ide_add", Bop("+", a, zero), a)
inv_add == Axiom("inv_add", Bop("+", a, Uop("~", a)), one)
cmp_add == Axiom("cmp_add", Bop("+", a, Uop("~", a)), Uop("~", zero))

AxiomPool == {com_add, ide_add, inv_add, cmp_add}

(* The (start, target) pairs handed to a search that is checked on its     *)
(* own: identities, one-step and two-step goals, goals that need a         *)
(* placeholder on the way, goals out of reach, and a goal written with     *)
(* the names the axioms use.                                               *)
Goals ==
    {<<one, one>>,
     <<Bop("+", x, zero), x>>,
     <<Bop("+", Bop("+", x, zero), zero), x>>,
     <<Bop("+", Bop("+", x, y), z), Bop("+", z, Bop("+", y, x))>>,
     <<x, Bop("+", zero, x)>>,
     <<one, Uop("~", zero)>>,
     <<Uop("~", zero), one>>,
     <<one, Bop("+", x, Uop("~", x))>>,
     <<Bop("+", a, zero), Bop("+", zero, b)>>}

Sizes == {1, 7, 13}

SeqsUpTo(S, n) == UNION {[1..k -> S] : k \in 0..n}

SrcAxiom(ax) == [kw |-> "axiom", word |-> ax.name, forms |-> <<ax.rule_a, ax.rule_b>>, value |-> ""]
SrcProve(l, r) == [kw |-> "prove", word |-> "", forms |-> <<l, r>>, value |-> ""]
SrcParam(name, value) == [kw |-> "param", word |-> name, forms |-> <<>>, value |-> value]

Commands ==
    {SrcAxiom(ide_add), SrcAxiom(inv_add), SrcAxiom(cmp_add),
     SrcParam("use_proofs_as_axioms", "true"),
     SrcParam("max_search_depth", "0"),
     SrcParam("max_search_depth", "x1"),
     SrcParam("max_tree_size", "1"),
     SrcProve(Bop("+", Bop("+", x, zero), zero), x),
     SrcProve(Unres("?0"), x),
     SrcProve(one, Uop("~", zero)),
     SrcProve(Uop("~", zero), Uop("~", zero))}

RECURSIVE TermsUpTo(_)
TermsUpTo(n) ==
    IF n = 0 THEN {zero, x, Unres("?0")}
    ELSE LET T == TermsUpTo(n - 1)
         IN T \cup {Uop("~", t) : t \in T} \cup {Bop("+", l, r) : l \in T, r \in T}

(* Subjects of the matcher: every term up to the nesting bound, and the    *)
(* terms of the shape of inv_add's pattern one level deeper.               *)
Subjects ==
    TermsUpTo(MaxTermDepth)
    \cup {Bop("+", l, Uop("~", r)) : l \in TermsUpTo(1), r \in TermsUpTo(1)}

Patterns == {a, one, Uop("~", zero), Bop("+", a, zero), Bop("+", a, b),
             Bop("+", a, a), Bop("+", a, Uop("~", a))}

NoCall == [axioms |-> <<>>, start |-> zero, target |-> zero,
           max_depth |-> 0, max_tree_size |-> 0]

DriverInit ==
    /\ root = EmptyRoot
    /\ ci = 1
    /\ axioms = <<>>
    /\ max_search_depth = DefaultDepth
    /\ max_tree_size = DefaultSize
    /\ use_proofs_as_axioms = FALSE
    /\ out = ""
    /\ proofs = <<>>

SearchIdle ==
    /\ fsp = NoCall
    /\ Q = <<>>
    /\ vis = {}
    /\ parent = EmptyMap
    /\ depth = EmptyMap
    /\ var_gen = 0
    /\ states = 0
    /\ ok = FALSE
    /\ path = <<>>
    /\ hist = <<>>

MatchIdle ==
    /\ subject = zero
    /\ pattern = zero
    /\ matched = [ok |-> FALSE, scope |-> EmptyScope]

(* The process after construction, for each script of the bounded set.     *)
Init ==
    /\ script \in SeqsUpTo(Commands, MaxCmds)
    /\ pc = "parse"
    /\ DriverInit
    /\ SearchIdle
    /\ MatchIdle

Next ==
    \/ Parse
    \/ CmdAxiom
    \/ CmdParam
    \/ CmdProve
    \/ Found
    \/ Abandon
    \/ Expand
    \/ Fail
    \/ Report
    \/ Finish

Spec == Init /\ [][Next]_vars

(* find_shortest_path on its own, its arguments drawn from bounded sets.   *)
InitSearch ==
    /\ script = <<>>
    /\ pc = "search"
    /\ DriverInit
    /\ MatchIdle
    /\ \E axs \in SeqsUpTo(AxiomPool, MaxAxioms), g \in Goals,
          md \in 0..MaxDepth, ms \in Sizes :
        /\ fsp = [axioms |-> axs, start |-> g[1], target |-> g[2],
                  max_depth |-> md, max_tree_size |-> ms]
        /\ Q = <<g[1]>>
        /\ vis = {to_string(g[1])}
    /\ parent = EmptyMap
    /\ depth = EmptyMap
    /\ var_gen = 0
    /\ states = 0
    /\ ok = FALSE
    /\ path = <<>>
    /\ hist = <<>>

NextSearch ==
    \/ Found
    \/ Abandon
    \/ Expand
    \/ Fail

SpecSearch == InitSearch /\ [][NextSearch]_vars

(* find_shortest_path run to its end: every iteration of the loop is       *)
(* followed, however many there are.                                       *)
NextTermination ==
    \/ FoundStep
    \/ AbandonStep
    \/ ExpandStep
    \/ Fail

(* The scheduling of a sequential loop: while a node waits in the queue    *)
(* the next iteration takes place (each one counts in states), and with    *)
(* the queue empty the function returns.                                   *)
Iteration == pc = "search" /\ Q # <<>> /\ states' = states + 1

SpecTermination ==
    InitSearch /\ [][NextTermination]_vars /\ WF_states(Iteration) /\ WF_vars(Fail)

(* get_rule_replacements on an empty scope, then replace_variables of the  *)
(* pattern under the scope it filled.                                      *)
Match ==
    /\ pc = "match"
    /\ \E ub \in Outcomes(subject) :
        matched' = get_rule_replacements(subject, pattern, EmptyScope, ub)
    /\ pc' = "matched"
    /\ UNCHANGED <<subject, pattern, DriverVars, SearchVars>>

InitMatch ==
    /\ script = <<>>
    /\ pc = "match"
    /\ DriverInit
    /\ SearchIdle
    /\ subject \in Subjects
    /\ pattern \in Patterns
    /\ matched = [ok |-> FALSE, scope |-> EmptyScope]

NextMatch == Match

SpecMatch == InitMatch /\ [][NextMatch]_vars

----------------------------------------------------------------------------
(* Properties of the search engine, checked under SpecSearch.              *)

Returned == pc = "return"

(* Keys of the nodes taken from the queue so far.                          *)
Dequeued == {to_string(hist[i].node) : i \in 1..Len(hist)}

(* The (key, successor key) pairs the search has enumerated so far.        *)
Edges ==
    UNION {{<<to_string(hist[i].node), to_string(hist[i].possible[j][2])>> :
              j \in 1..Len(hist[i].possible)} : i \in 1..Len(hist)}

(* Keys within n enumerated steps of the start.                            *)
RECURSIVE Within(_)
Within(n) ==
    IF n = 0 THEN {hstart}
    ELSE LET R == Within(n - 1)
         IN R \cup {e[2] : e \in {f \in Edges : f[1] \in R}}

(* An axiom list whose rewrites introduce no placeholder: there the        *)
(* successors of a term depend on nothing but the term.                    *)
NoFresh(axs) ==
    \A k \in 1..Len(axs) : get_variables(axs[k].rule_a) = get_variables(axs[k].rule_b)

Rewrites(axs, t) ==
    LET p == possible_next_trees(axs, t, 0, CHOOSE ub \in Outcomes(t) : TRUE)
    IN {p.possible[j][2] : j \in 1..Len(p.possible)}

(* Terms within n rewrites of the start, expanding only within max_size.   *)
RECURSIVE Level(_)
Level(n) ==
    IF n = 0 THEN {fsp.start}
    ELSE LET L == Level(n - 1)
         IN L \cup UNION {Rewrites(fsp.axioms, t) :
                            t \in {l \in L : Len(to_string(l)) <= fsp.max_tree_size}}

(* C1: a returned path of k steps is a shortest one: k is the depth        *)
(* recorded for the target key, every visited key of smaller depth has     *)
(* been taken from the queue, no chain of fewer than k enumerated steps    *)
(* leads from the start key to the target key and, where rewriting         *)
(* introduces no placeholder, no sequence of fewer than k rewrites of      *)
(* terms within max_tree_size leads from start to the target's text.       *)
C1_BfsOptimal ==
    (Returned /\ ok) =>
        LET k == Len(path)
        IN /\ k = depth_at(depth, htarget)
           /\ \A key \in vis : depth_at(depth, key) < k => key \in Dequeued
           /\ k > 0 => htarget \notin Within(k - 1)
           /\ (k > 0 /\ NoFresh(fsp.axioms)) =>
                 htarget \notin {to_string(t) : t \in Level(k - 1)}

C1_Witness == Returned /\ ok /\ Len(path) = 2 /\ NoFresh(fsp.axioms)

(* C2: every entry of a returned path is a pair that possible_next_trees   *)
(* produced for the term before it (the start for the first entry), under  *)
(* the axiom the entry names, and the last term prints as the target.      *)
C2_PathSound ==
    (Returned /\ ok) =>
        /\ \A i \in 1..Len(path) :
              LET before == IF i = 1 THEN fsp.start ELSE path[i - 1][2]
              IN /\ \E h \in 1..Len(hist) :
                       /\ hist[h].kind = "expanded"
                       /\ hist[h].node = before
                       /\ \E j \in 1..Len(hist[h].possible) : hist[h].possible[j] = path[i]
                 /\ \E idx \in 0..var_gen, ub \in Outcomes(before) :
                       LET p == possible_next_trees(fsp.axioms, before, idx, ub)
                       IN \E j \in 1..Len(p.possible) : p.possible[j] = path[i]
                 /\ \E k \in 1..Len(fsp.axioms) : fsp.axioms[k].name = path[i][1]
        /\ to_string(IF path = <<>> THEN fsp.start ELSE path[Len(path)][2]) = htarget

C2_Witness == Returned /\ ok /\ Len(path) = 2 /\ var_gen > 0

(* C4: a node is expanded only at a depth below max_depth and with a text  *)
(* of at most max_tree_size characters, so every term in the parent map    *)
(* descends from such a node, every visited key has depth <= max_depth and *)
(* a returned path has at most max_depth steps; and a dequeued node other  *)
(* than the target whose text is within max_tree_size (exactly that long   *)
(* included) and whose depth is below max_depth is expanded.               *)
C4_BoundRespect ==
    /\ \A key \in DOMAIN parent :
          LET hp == to_string(parent[key][2])
          IN depth_at(depth, hp) < fsp.max_depth /\ Len(hp) <= fsp.max_tree_size
    /\ \A key \in vis : depth_at(depth, key) <= fsp.max_depth
    /\ (Returned /\ ok) => Len(path) <= fsp.max_depth
    /\ \A i \in 1..Len(hist) :
          LET hu == to_string(hist[i].node)
              within == Len(hu) <= fsp.max_tree_size /\ depth_at(depth, hu) < fsp.max_depth
          IN /\ hist[i].kind = "expanded" => within
             /\ (within /\ hu # htarget) => hist[i].kind = "expanded"

C4_Witness ==
    \E i \in 1..Len(hist) :
        /\ hist[i].kind = "expanded"
        /\ Len(to_string(hist[i].node)) = fsp.max_tree_size
        /\ Len(hist[i].possible) > 0
        /\ \E j \in 1..Len(hist) : hist[j].kind = "abandoned"

(* Names of the placeholder leaves and of the variable leaves of a term.   *)
RECURSIVE unres_names(_)
unres_names(node) ==
    IF node.type = "UNRES" THEN {node.token}
    ELSE UNION {unres_names(node.children[i]) : i \in 1..Len(node.children)}

RECURSIVE var_names(_)
var_names(node) ==
    IF node.type = "VAR" THEN {node.token}
    ELSE UNION {var_names(node.children[i]) : i \in 1..Len(node.children)}

(* The successors enumerated so far: iteration i, entry j of its list.     *)
Sites == UNION {{<<i, j>> : j \in 1..Len(hist[i].possible)} : i \in 1..Len(hist)}

Successor(s) == hist[s[1]].possible[s[2]]

(* The placeholders that the rewrite of site s introduced.                 *)
Fresh(s) == unres_names(Successor(s)[2]) \ unres_names(hist[s[1]].node)

(* How many variables of one side of an axiom the other side leaves        *)
(* unbound, for either direction of the axioms named name.                 *)
UnboundCounts(axs, name) ==
    UNION {{Cardinality(get_variables(axs[k].rule_b) \ get_variables(axs[k].rule_a)),
            Cardinality(get_variables(axs[k].rule_a) \ get_variables(axs[k].rule_b))} :
           k \in {h \in 1..Len(axs) : axs[h].name = name}}

(* C11: within one search the placeholders come from one counter: the      *)
(* names introduced so far are exactly ?0 .. ?(var_gen - 1), each was      *)
(* introduced by exactly one successor, a successor introduces one name    *)
(* per variable its rule left unbound (so all occurrences of the variable  *)
(* share it), and every generated name starts with '?' and is no user      *)
(* identifier, while every variable of the start and of the axioms is.     *)
C11_FreshNames ==
    /\ UNION {Fresh(s) : s \in Sites} = {next_name(n) : n \in 0..(var_gen - 1)}
    /\ \A s \in Sites, t \in Sites : s # t => Fresh(s) \cap Fresh(t) = {}
    /\ \A s \in Sites :
          Cardinality(Fresh(s)) \in UnboundCounts(fsp.axioms, Successor(s)[1])
    /\ \A s \in Sites : \A n \in unres_names(Successor(s)[2]) :
          SubSeq(n, 1, 1) = "?" /\ ~is_id_token(n)
    /\ \A s \in Sites : \A n \in var_names(Successor(s)[2]) : is_id_token(n)
    /\ \A n \in 0..var_gen : ~is_id_token(next_name(n))

(* Successors of two different iterations have each introduced a           *)
(* placeholder, the first of them at two leaves.                           *)
C11_Witness ==
    /\ var_gen >= 2
    /\ \E s \in Sites, u \in Sites :
          /\ s[1] < u[1]
          /\ Fresh(s) # {} /\ Fresh(u) # {}
          /\ Successor(s)[2].type = "OP"
          /\ Len(Successor(s)[2].children) = 2
          /\ unres_names(Successor(s)[2].children[1]) \cap Fresh(s)
                \cap unres_names(Successor(s)[2].children[2]) # {}

(* The positions of a term, root first, then those inside child 0, then   *)
(* those inside child 1; a position is the sequence of child indices.      *)
RECURSIVE positions(_)
positions(node) ==
    LET below(i) == LET ps == positions(node.children[i])
                    IN [n \in 1..Len(ps) |-> <<i>> \o ps[n]]
    IN <<<<>>>> \o (IF Len(node.children) >= 1 THEN below(1) ELSE <<>>)
               \o (IF Len(node.children) >= 2 THEN below(2) ELSE <<>>)

RECURSIVE subterm(_, _)
subterm(node, pos) ==
    IF pos = <<>> THEN node ELSE subterm(node.children[Head(pos)], Tail(pos))

RECURSIVE put(_, _, _)
put(node, pos, t) ==
    IF pos = <<>> THEN t
    ELSE [node EXCEPT !.children[Head(pos)] = put(node.children[Head(pos)], Tail(pos), t)]

(* The rewrite attempts on u in the order of C12: axiom by axiom, a => b   *)
(* before b => a, and the positions as positions(u) lists them.            *)
RECURSIVE attempts(_, _, _)
attempts(axs, k, u) ==
    IF k > Len(axs) THEN <<>>
    ELSE LET ps == positions(u)
         IN [n \in 1..Len(ps) |-> [name |-> axs[k].name, from |-> axs[k].rule_a,
                                   to |-> axs[k].rule_b, pos |-> ps[n]]]
            \o [n \in 1..Len(ps) |-> [name |-> axs[k].name, from |-> axs[k].rule_b,
                                      to |-> axs[k].rule_a, pos |-> ps[n]]]
            \o attempts(axs, k + 1, u)

(* The successors of u that the attempts yield one after the other.        *)
RECURSIVE in_order(_, _, _, _, _, _)
in_order(att, n, u, idx, ub, acc) ==
    IF n > Len(att) THEN acc
    ELSE LET t == apply_transformation(subterm(u, att[n].pos), att[n].from,
                                       att[n].to, idx, ub)
         IN in_order(att, n + 1, u, t.idx, ub,
                     IF t.ok THEN Append(acc, <<att[n].name, put(u, att[n].pos, t.node)>>)
                     ELSE acc)

(* The value of the generator when iteration i began.                      *)
IdxBefore(i) == Cardinality(UNION {Fresh(s) : s \in {t \in Sites : t[1] < i}})

(* The sites whose key had not been seen when they were enumerated, in     *)
(* the order of enumeration.                                               *)
RECURSIVE arrivals(_, _, _, _)
arrivals(i, j, seen, acc) ==
    IF i > Len(hist) THEN acc
    ELSE IF j > Len(hist[i].possible) THEN arrivals(i + 1, 1, seen, acc)
    ELSE LET hv == to_string(hist[i].possible[j][2])
         IN IF hv \in seen THEN arrivals(i, j + 1, seen, acc)
            ELSE arrivals(i, j + 1, seen \cup {hv}, Append(acc, <<i, j>>))

Arrivals == arrivals(1, 1, {hstart}, <<>>)

(* C12: every expanded node's successor list is the list of the rewrites   *)
(* that succeed, axiom by axiom in declaration order, a => b before        *)
(* b => a, root first, then inside child 0, then inside child 1; the       *)
(* nodes ever enqueued are the start followed by the successors whose key  *)
(* was new, in that order; and the parent map holds for each key the       *)
(* axiom name and predecessor of the first successor that had it.          *)
C12_EnumerationOrder ==
    /\ \A i \in 1..Len(hist) :
          hist[i].kind = "expanded" =>
              \E ub \in Outcomes(hist[i].node) :
                  hist[i].possible =
                      in_order(attempts(fsp.axioms, 1, hist[i].node), 1, hist[i].node,
                               IdxBefore(i), ub, <<>>)
    /\ <<fsp.start>> \o [n \in 1..Len(Arrivals) |-> Successor(Arrivals[n])[2]]
          = [i \in 1..Len(hist) |-> hist[i].node] \o Q
    /\ DOMAIN parent = {to_string(Successor(Arrivals[n])[2]) : n \in 1..Len(Arrivals)}
    /\ \A n \in 1..Len(Arrivals) :
          parent[to_string(Successor(Arrivals[n])[2])]
              = <<Successor(Arrivals[n])[1], hist[Arrivals[n][1]].node>>

(* A key was produced first under one axiom and later, from another node,  *)
(* under another, and one list holds successors of both directions of an   *)
(* axiom, at the root and inside both children.                            *)
C12_Witness ==
    /\ \E n \in 1..Len(Arrivals), t \in Sites :
          /\ Arrivals[n][1] < t[1]
          /\ to_string(Successor(Arrivals[n])[2]) = to_string(Successor(t)[2])
          /\ Successor(Arrivals[n])[1] # Successor(t)[1]
    /\ \E i \in 1..Len(hist) :
          /\ Len(hist[i].possible) >= 4
          /\ Len(hist[i].node.children) = 2
          /\ \E j \in 1..Len(hist[i].possible) :
                /\ Len(hist[i].possible[j][2].children) = 2
                /\ hist[i].possible[j][2].children[1] = hist[i].node.children[1]
                /\ hist[i].possible[j][2].children[2] # hist[i].node.children[2]

(* What bounds the loop and the walk of the parent links: no key is taken  *)
(* from the queue twice or waits in it twice, no node deeper than          *)
(* max_depth is ever enqueued, the start has no parent link, and every     *)
(* parent link leads to a key one level nearer to the start, which is the  *)
(* start or has a parent link itself.                                      *)
Variant ==
    /\ \A i \in 1..Len(hist), j \in 1..Len(hist) :
          to_string(hist[i].node) = to_string(hist[j].node) => i = j
    /\ \A i \in 1..Len(Q), j \in 1..Len(Q) : to_string(Q[i]) = to_string(Q[j]) => i = j
    /\ \A i \in 1..Len(Q) : /\ to_string(Q[i]) \notin Dequeued
                             /\ to_string(Q[i]) \in vis
                             /\ depth_at(depth, to_string(Q[i])) <= fsp.max_depth
    /\ hstart \notin DOMAIN parent
    /\ depth_at(depth, hstart) = 0
    /\ \A key \in DOMAIN parent :
          LET hp == to_string(parent[key][2])
          IN /\ depth_at(depth, hp) + 1 = depth_at(depth, key)
             /\ hp = hstart \/ hp \in DOMAIN parent

(* C13: find_shortest_path, once called, returns: with a path or with the  *)
(* frontier empty; and all along, what bounds its loop and the walk of     *)
(* its path reconstruction holds.                                          *)
C13_Terminates == []Variant /\ <>(pc = "return")

(* A search that went on past the iterations the bounded specifications    *)
(* follow, introduced placeholders on the way and emptied the frontier.    *)
C13_Witness ==
    /\ pc = "return"
    /\ ~ok
    /\ states > MaxStates
    /\ var_gen >= 2
    /\ Q = <<>>

(* The terms the search has taken from the queue, enumerated or queued.    *)
Enqueued ==
    {hist[i].node : i \in 1..Len(hist)}
    \cup {Successor(s)[2] : s \in Sites}
    \cup {Q[i] : i \in 1..Len(Q)}
    \cup {parent[k][2] : k \in DOMAIN parent}

PatternNames(axs) ==
    UNION {get_variables(axs[k].rule_a) \cup get_variables(axs[k].rule_b) : k \in 1..Len(axs)}

----------------------------------------------------------------------------
(* Properties of the matcher, checked under SpecMatch.                     *)

(* The (pattern variable, subject subterm) pairs that the walk of          *)
(* get_rule_replacements aligns.                                           *)
RECURSIVE aligned(_, _)
aligned(node, rule) ==
    IF rule.type \in {"VAR", "UNRES"} THEN {<<rule.token, node>>}
    ELSE IF rule.type = "OP" /\ node.type = "OP" /\ Len(rule.children) = Len(node.children)
    THEN UNION {aligned(node.children[i], rule.children[i]) : i \in 1..Len(rule.children)}
    ELSE {}

Matched == pc = "matched" /\ matched.ok

(* C3: after a successful match from the empty scope, the pattern          *)
(* instantiated under the scope prints as the subject.                     *)
C3_MatchSubstitute ==
    Matched => to_string(replace_variables(pattern, matched.scope)) = to_string(subject)

(* C3 on the subjects without placeholders, where every call of            *)
(* trees_equal returns a value.                                            *)
C3_NoPlaceholder ==
    (Matched /\ "UNRES" \notin kinds(subject))
        => to_string(replace_variables(pattern, matched.scope)) = to_string(subject)

(* C3 where no pattern variable occurs twice, which the matcher satisfies. *)
C3_Linear ==
    (Matched /\ \A p \in aligned(subject, pattern), q \in aligned(subject, pattern) :
                    p[1] = q[1] => p = q)
        => to_string(replace_variables(pattern, matched.scope)) = to_string(subject)

(* C10: after a successful match every subject subterm aligned with an     *)
(* occurrence of a pattern variable prints as the subterm bound to it.     *)
C10_RepeatedVariable ==
    Matched => \A p \in aligned(subject, pattern) :
                  to_string(p[2]) = to_string(matched.scope[p[1]])

(* C10 for the pattern of inv_add on operator subterms without             *)
(* placeholders: the two aligned subterms print alike.                     *)
C10_InvAdd ==
    (/\ Matched
     /\ pattern = Bop("+", a, Uop("~", a))
     /\ "UNRES" \notin kinds(subject)
     /\ subject.children[1].type = "OP")
        => to_string(subject.children[1]) = to_string(subject.children[2].children[1])

----------------------------------------------------------------------------
(* Properties of the driver, checked under Spec.                           *)

Running == pc \in {"main", "search", "return", "exit0"}

(* C5: the step that ends a prove command appends the one axiom            *)
(* "proof of <LHS> = <RHS>" with patterns (LHS, RHS) when the flag is set  *)
(* and the search found a path, leaves the axiom list as it is otherwise,  *)
(* and moves to the next command; no other step of a prove command         *)
(* changes the axiom list.                                                 *)
C5_ProveFrame ==
    [][/\ pc = "return" =>
            LET cmd == root.children[ci]
                lhs == cmd.children[1]
                rhs == cmd.children[2]
            IN /\ cmd.type = "PROVE"
               /\ axioms' = IF use_proofs_as_axioms /\ ok
                            THEN Append(axioms,
                                        [name |-> "proof of " \o to_string(lhs) \o " = "
                                                    \o to_string(rhs),
                                         rule_a |-> lhs, rule_b |-> rhs])
                            ELSE axioms
               /\ pc' = "main"
               /\ ci' = ci + 1
       /\ (pc = "search" \/ AtCommand("PROVE")) => axioms' = axioms]_vars

C5_Witness ==
    /\ pc = "main"
    /\ \E i \in 1..Len(proofs) : proofs[i].flag /\ proofs[i].ok
    /\ \E i \in 1..Len(proofs) : proofs[i].flag /\ ~proofs[i].ok
    /\ \E k \in 1..Len(axioms) :
          axioms[k].name = "proof of (+ (+ x 0) 0) = x"

(* C6: two prove commands in a row with the same axiom list, terms and     *)
(* bounds, the flag off, the first one successful: the second returns the  *)
(* same path.                                                              *)
C6_ReproveSame ==
    \A i \in 1..(Len(proofs) - 1) :
        (/\ proofs[i].call = proofs[i + 1].call
         /\ ~proofs[i].flag /\ ~proofs[i + 1].flag
         /\ proofs[i].ok)
            => /\ proofs[i + 1].ok
               /\ proofs[i + 1].path = proofs[i].path

(* C6, the part on carried state: every search starts with a fresh         *)
(* generator, an empty parent map and depth map and the start alone in     *)
(* the queue and the visited set.                                          *)
C6_FreshSearch ==
    [][AtCommand("PROVE") =>
            /\ var_gen' = 0
            /\ parent' = EmptyMap /\ depth' = EmptyMap
            /\ Q' = <<root.children[ci].children[1]>>
            /\ vis' = {to_string(root.children[ci].children[1])}]_vars

(* C7: once a prove of L = R has succeeded in two or more steps with the   *)
(* flag set, a later prove of the same L = R under the same bounds         *)
(* succeeds in one step, under the axiom "proof of <L> = <R>".             *)
Reproved(i, j) ==
    /\ i < j
    /\ proofs[i].flag /\ proofs[i].ok /\ Len(proofs[i].path) >= 2
    /\ proofs[j].call.start = proofs[i].call.start
    /\ proofs[j].call.target = proofs[i].call.target
    /\ proofs[j].call.max_depth = proofs[i].call.max_depth
    /\ proofs[j].call.max_tree_size = proofs[i].call.max_tree_size

C7_ProofReused ==
    \A i \in 1..Len(proofs), j \in 1..Len(proofs) :
        Reproved(i, j) =>
            /\ proofs[j].ok
            /\ Len(proofs[j].path) = 1
            /\ proofs[j].path[1][1] =
                  "proof of " \o to_string(proofs[i].call.start) \o " = "
                      \o to_string(proofs[i].call.target)

C7_Witness == \E i \in 1..Len(proofs), j \in 1..Len(proofs) : Reproved(i, j)

(* C8: while the driver runs, max_search_depth and max_tree_size are >= 1. *)
C8_PositiveBounds == Running => (max_search_depth >= 1 /\ max_tree_size >= 1)

(* C8, the part the parser does enforce: a value token with a character    *)
(* that is no digit never reaches the driver.                              *)
C8_DigitsOnly ==
    Running => \A i \in 1..Len(script) :
                  (script[i].kw = "param" /\ is_pos_int_param_token(script[i].word))
                      => is_pos_int_token(script[i].value)

(* C9: find_shortest_path returns found with an empty path exactly when    *)
(* start and target print alike, and then after one checked state,         *)
(* whatever the bounds; the driver then prints "Statements are the same.". *)
C9_Identity ==
    /\ Returned => /\ (ok /\ path = <<>>) <=> (hstart = htarget)
                   /\ (hstart = htarget) => states = 1
    /\ proofs # <<>> =>
          LET p == proofs[Len(proofs)]
          IN (out = "Statements are the same.")
                <=> (to_string(p.call.start) = to_string(p.call.target))

C9_Witness ==
    /\ proofs # <<>>
    /\ out = "Statements are the same."
    /\ Len(to_string(proofs[Len(proofs)].call.start)) > proofs[Len(proofs)].call.max_tree_size
    /\ proofs[Len(proofs)].call.max_depth = 0
    /\ proofs[Len(proofs)].call.axioms # <<>>

(* The node kinds the parser builds formulas of, and those of the terms a  *)
(* search builds.                                                          *)
ParsedKinds == {"OP", "PRIM", "VAR"}
TermKinds == {"OP", "PRIM", "VAR", "UNRES"}

(* The terms the running or last search has taken, enumerated or queued.   *)
SearchTerms ==
    {hist[i].node : i \in 1..Len(hist)}
    \cup UNION {{hist[i].possible[j][2] : j \in 1..Len(hist[i].possible)} : i \in 1..Len(hist)}
    \cup {Q[i] : i \in 1..Len(Q)}
    \cup {path[i][2] : i \in 1..Len(path)}

(* C14: the process exits with status 1 only from the parser, before any   *)
(* command has run; every pattern of every axiom, the synthetic ones       *)
(* included, is built of OP, PRIM and VAR nodes only, so that neither      *)
(* replace_variables nor get_variables meets a kind it rejects; and every  *)
(* term of a search is built of OP, PRIM, VAR and UNRES nodes, which       *)
(* to_string prints.                                                       *)
C14_NoRuntimeError ==
    /\ pc = "exit1" =>
          /\ \E i \in 1..Len(script) : parse_command(script[i]) = ParseError
          /\ root = EmptyRoot /\ axioms = <<>> /\ hist = <<>> /\ proofs = <<>>
    /\ \A axs \in {axioms, fsp.axioms} : \A k \in 1..Len(axs) :
          /\ kinds(axs[k].rule_a) \cup kinds(axs[k].rule_b) \subseteq ParsedKinds
          /\ "Runtime Error" \notin get_variables(axs[k].rule_a) \cup get_variables(axs[k].rule_b)
    /\ \A t \in SearchTerms :
          /\ ~has_rerror(t)
          /\ kinds(t) \subseteq TermKinds
    /\ \A i \in 1..Len(root.children) :
          root.children[i].type = "PARAM" =>
              root.children[i].token \in {"max_search_depth", "max_tree_size",
                                          "use_proofs_as_axioms"}

(* The script has run to its end; a synthetic axiom served as the          *)
(* template of the one step of a later proof, after a search that          *)
(* expanded nodes under the user's axiom.                                  *)
C14_Witness ==
    /\ pc = "exit0"
    /\ Len(proofs) = 2
    /\ Len(proofs[1].path) = 2
    /\ proofs[2].ok
    /\ Len(proofs[2].path) = 1
    /\ \E k \in 1..Len(proofs[2].call.axioms) :
          /\ proofs[2].call.axioms[k].rule_a = proofs[1].call.start
          /\ proofs[2].call.axioms[k].name = proofs[2].path[1][1]
          /\ proofs[2].call.axioms[k].name # "ide_add"

====
